---- MODULE Spec2Model ----
(***************************************************************************)
(* Model of mandelbrot/src/main.rs: escape_time, parse_pair and            *)
(* parse_complex.                                                          *)
(*                                                                         *)
(* escape_time is modelled step by step (one action per trip through the   *)
(* loop body, one for the return after the loop); parse_pair and           *)
(* parse_complex are pure functions modelled as operators and applied by   *)
(* one action each.                                                        *)
(***************************************************************************)
EXTENDS Integers, Sequences, FiniteSets, TLC

(***************************************************************************)
(* Bounds of the model.                                                    *)
(***************************************************************************)
\* finite components of c range over -MaxC..MaxC
MaxC == 2
\* limit ranges over 0..MaxLimit
MaxLimit == 5
\* input strings have at most MaxLen characters
MaxLen == 4
\* the largest finite f64 of the model: results beyond it overflow to infinity
FMax == 30000

(***************************************************************************)
(* f64 values.  A value is <<"fin", n>> (a finite number; the model uses   *)
(* the integers -FMax..FMax, on which f64 arithmetic is exact),            *)
(* <<"inf", 1>>, <<"inf", -1>> or <<"nan", 0>>.  A result beyond FMax      *)
(* overflows to the infinity of its sign.  The sign of zero is not         *)
(* tracked: no operation used by the program distinguishes -0.0 from 0.0.  *)
(***************************************************************************)
Fin(n) == <<"fin", n>>
PosInf == <<"inf", 1>>
NegInf == <<"inf", -1>>
NaN == <<"nan", 0>>

Sgn(n) == IF n > 0 THEN 1 ELSE IF n < 0 THEN -1 ELSE 0

\* the f64 an exact result n is delivered as: overflow gives an infinity
Overflow(n) ==
    IF n > FMax THEN PosInf ELSE IF n < -FMax THEN NegInf ELSE Fin(n)

\* f64 negation
FNeg(a) == IF a[1] = "nan" THEN NaN ELSE <<a[1], -a[2]>>

\* f64 addition: NaN is absorbing, inf + -inf is NaN
FAdd(a, b) ==
    IF a[1] = "nan" \/ b[1] = "nan" THEN NaN
    ELSE IF a[1] = "inf"
         THEN IF b[1] = "inf" /\ b[2] # a[2] THEN NaN ELSE a
    ELSE IF b[1] = "inf" THEN b
    ELSE Overflow(a[2] + b[2])

\* f64 subtraction
FSub(a, b) == FAdd(a, FNeg(b))

\* f64 multiplication: NaN is absorbing, inf * 0 is NaN
FMul(a, b) ==
    IF a[1] = "nan" \/ b[1] = "nan" THEN NaN
    ELSE IF a[1] = "inf" \/ b[1] = "inf"
         THEN IF a[2] = 0 \/ b[2] = 0 THEN NaN
              ELSE <<"inf", Sgn(a[2]) * Sgn(b[2])>>
    ELSE Overflow(a[2] * b[2])

\* f64 comparison a > b: false whenever an operand is NaN
FGt(a, b) ==
    IF a[1] = "nan" \/ b[1] = "nan" THEN FALSE
    ELSE IF a[1] = "inf" THEN a[2] = 1 /\ b # PosInf
    ELSE IF b[1] = "inf" THEN b[2] = -1
    ELSE a[2] > b[2]

(***************************************************************************)
(* Complex<f64>: a record [re, im] of f64 values.                          *)
(***************************************************************************)
Complex(re, im) == [re |-> re, im |-> im]

\* Complex::norm_sqr: re * re + im * im
norm_sqr(z) == FAdd(FMul(z.re, z.re), FMul(z.im, z.im))

\* Complex multiplication: (a.re*b.re - a.im*b.im, a.re*b.im + a.im*b.re)
CMul(a, b) ==
    Complex(FSub(FMul(a.re, b.re), FMul(a.im, b.im)),
            FAdd(FMul(a.re, b.im), FMul(a.im, b.re)))

\* Complex addition, componentwise
CAdd(a, b) == Complex(FAdd(a.re, b.re), FAdd(a.im, b.im))

\* let mut z = Complex { re: 0.0, im: 0.0 }
Zero == Complex(Fin(0), Fin(0))

\* the escape threshold of line 8, the square of the escape radius 2
Threshold == 4

\* variants of Escapes: the comparison reversed, and >= for >
EscapesLt(z) == FGt(Fin(Threshold), norm_sqr(z))
EscapesGe(z) == ~FGt(Fin(Threshold), norm_sqr(z)) /\ norm_sqr(z)[1] # "nan"

\* the test of line 8: z.norm_sqr() > 4.0
Escapes(z) == FGt(norm_sqr(z), Fin(Threshold))

\* variant of InRange: the inclusive range 0..=limit
InRangeInclusive(k, lim) == k <= lim

\* the range 0..limit of line 7 yields k while k < limit
InRange(k, lim) == k < lim

\* Option<usize>
None == <<"None", 0>>
Some(n) == <<"Some", n>>
\* no value yet: the call has not returned
Pending == <<"Pending", 0>>

\* the inputs the model draws c and limit from
F64s == {Fin(n) : n \in -MaxC..MaxC} \cup {PosInf, NegInf, NaN}
Complexes == {Complex(a, b) : a \in F64s, b \in F64s}
Limits == 0..MaxLimit

VARIABLES
    c,          \* escape_time: the argument c
    limit,      \* escape_time: the argument limit
    z,          \* escape_time: the local z
    i,          \* escape_time: the loop index
    pc,         \* escape_time: "loop" at the head of the for loop, "done" after the return
    result,     \* escape_time: the returned Option<usize>
    tests,      \* number of evaluations of the test of line 8 in this call
    updates,    \* number of executions of line 11 in this call
    prevLimit,  \* limit of the previous completed call on the same c, -1 if none
    prevResult  \* result of the previous completed call on the same c

evars == <<c, limit, z, i, pc, result, tests, updates, prevLimit, prevResult>>

VARIABLES
    ps,         \* the argument s of parse_pair / parse_complex
    psep,       \* parse_pair: the argument separator
    pT,         \* parse_pair: the type parameter T, "i32" or "f64"
    ppc,        \* "ready" before the call, "done" after it, "idle" when no call is made
    pfn,        \* the function that was called
    pres        \* what the call produced

pvars == <<ps, psep, pT, ppc, pfn, pres>>

vars == <<evars, pvars>>

\* no escape_time call is made
EscapeIdle ==
    /\ c = Zero
    /\ limit = 0
    /\ z = Zero
    /\ i = 0
    /\ pc = "idle"
    /\ result = Pending
    /\ tests = 0
    /\ updates = 0
    /\ prevLimit = -1
    /\ prevResult = Pending

\* no parse call is made
ParseIdle ==
    /\ ps = <<>>
    /\ psep = ","
    /\ pT = "i32"
    /\ ppc = "idle"
    /\ pfn = "none"
    /\ pres = <<"Pending">>

(***************************************************************************)
(* escape_time, lines 5-14.                                                *)
(***************************************************************************)
\* entry of escape_time(c0, l0): line 6
Enter(c0, l0) ==
    /\ c' = c0
    /\ limit' = l0
    /\ z' = Zero
    /\ i' = 0
    /\ pc' = "loop"
    /\ result' = Pending
    /\ tests' = 0
    /\ updates' = 0

InitEscape ==
    /\ c \in Complexes
    /\ limit \in Limits
    /\ z = Zero
    /\ i = 0
    /\ pc = "loop"
    /\ result = Pending
    /\ tests = 0
    /\ updates = 0
    /\ prevLimit = -1
    /\ prevResult = Pending
    /\ ParseIdle

\* variant of Escape: the iterations left are returned, not the index
EscapeRemaining ==
    /\ pc = "loop"
    /\ InRange(i, limit)
    /\ Escapes(z)
    /\ tests' = tests + 1
    /\ result' = Some(limit - i)
    /\ pc' = "done"
    /\ UNCHANGED <<c, limit, z, i, updates, prevLimit, prevResult>>
    /\ UNCHANGED pvars

\* lines 7-10: the range yields i, the test holds, return Some(i)
Escape ==
    /\ pc = "loop"
    /\ InRange(i, limit)
    /\ Escapes(z)
    /\ tests' = tests + 1
    /\ result' = Some(i)
    /\ pc' = "done"
    /\ UNCHANGED <<c, limit, z, i, updates, prevLimit, prevResult>>
    /\ UNCHANGED pvars

\* variant of Iterate: z = z * z, c is not added
IterateNoAdd ==
    /\ pc = "loop"
    /\ InRange(i, limit)
    /\ ~Escapes(z)
    /\ tests' = tests + 1
    /\ z' = CMul(z, z)
    /\ updates' = updates + 1
    /\ i' = i + 1
    /\ UNCHANGED <<c, limit, pc, result, prevLimit, prevResult>>
    /\ UNCHANGED pvars

\* lines 7-12: the range yields i, the test fails, z = z * z + c
Iterate ==
    /\ pc = "loop"
    /\ InRange(i, limit)
    /\ ~Escapes(z)
    /\ tests' = tests + 1
    /\ z' = CAdd(CMul(z, z), c)
    /\ updates' = updates + 1
    /\ i' = i + 1
    /\ UNCHANGED <<c, limit, pc, result, prevLimit, prevResult>>
    /\ UNCHANGED pvars

\* variant of ReturnNone: an exhausted range reported as Some(limit)
ReturnLimit ==
    /\ pc = "loop"
    /\ ~InRange(i, limit)
    /\ result' = Some(limit)
    /\ pc' = "done"
    /\ UNCHANGED <<c, limit, z, i, tests, updates, prevLimit, prevResult>>
    /\ UNCHANGED pvars

\* line 13: the range is exhausted, return None
ReturnNone ==
    /\ pc = "loop"
    /\ ~InRange(i, limit)
    /\ result' = None
    /\ pc' = "done"
    /\ UNCHANGED <<c, limit, z, i, tests, updates, prevLimit, prevResult>>
    /\ UNCHANGED pvars

\* the caller calls escape_time again on the same point with limit l0
Call(l0) ==
    /\ pc = "done"
    /\ prevLimit' = limit
    /\ prevResult' = result
    /\ Enter(c, l0)
    /\ UNCHANGED pvars

NextEscape ==
    \/ Escape
    \/ Iterate
    \/ ReturnNone
    \/ \E l0 \in Limits : Call(l0)

Spec == InitEscape /\ [][NextEscape]_vars

\* the call runs to completion: each step of the function is eventually taken
FairSpec == Spec /\ WF_vars(Escape) /\ WF_vars(Iterate) /\ WF_vars(ReturnNone)

(***************************************************************************)
(* Strings.  A &str is modelled as the sequence of its characters; every   *)
(* character has a UTF-8 width, and find and the slices of parse_pair work *)
(* on byte offsets, as in the source.                                      *)
(***************************************************************************)
\* a character whose UTF-8 encoding takes two bytes
EAcute == "U+00E9"

Digits == {"0", "1", "2", "3", "4", "5", "6", "7", "8", "9"}

\* the characters input strings are made of: digits, sign, point, comma, a
\* letter that belongs to no number, and a two-byte character
Alphabet == {"0", "1", "-", ".", ",", "x", EAcute}

\* the separators parse_pair is called with
Separators == {",", "x", EAcute}

\* char::len_utf8
len_utf8(ch) == IF ch = EAcute THEN 2 ELSE 1

RECURSIVE ByteLen(_)
\* str::len: the length of s in bytes
ByteLen(s) == IF s = <<>> THEN 0 ELSE len_utf8(Head(s)) + ByteLen(Tail(s))

\* the byte offset at which character k+1 of s begins (k = Len(s): the end of s)
ByteOffset(s, k) == ByteLen(SubSeq(s, 1, k))

\* str::is_char_boundary
is_char_boundary(s, b) == \E k \in 0..Len(s) : ByteOffset(s, k) = b

\* str::find(char): the byte offset of the first occurrence, as Option<usize>
find(s, sep) ==
    IF \E k \in 1..Len(s) : s[k] = sep
    THEN LET k1 == CHOOSE k \in 1..Len(s) :
                       /\ s[k] = sep
                       /\ \A j \in 1..(k - 1) : s[j] # sep
         IN  Some(ByteOffset(s, k1 - 1))
    ELSE None

\* &s[..b], for b a character boundary of s
SliceTo(s, b) ==
    LET n == CHOOSE k \in 0..Len(s) : ByteOffset(s, k) = b
    IN  SubSeq(s, 1, n)

\* &s[b..], for b a character boundary of s
SliceFrom(s, b) ==
    LET n == CHOOSE k \in 0..Len(s) : ByteOffset(s, k) = b
    IN  SubSeq(s, n + 1, Len(s))

(***************************************************************************)
(* T::from_str for T = i32 and T = f64, on strings over Alphabet and '+'.  *)
(* A Result is <<"Ok", v>> or <<"Err">>.  An i32 is an integer; an f64 read*)
(* from decimal notation is <<m, e>>, the number m / 10^e with e minimal.  *)
(* The exponent, "inf" and "nan" notations of f64 need letters that        *)
(* Alphabet does not have.                                                 *)
(***************************************************************************)
Ok(v) == <<"Ok", v>>
Err == <<"Err">>

DigitVal(ch) ==
    CASE ch = "0" -> 0 [] ch = "1" -> 1 [] ch = "2" -> 2 [] ch = "3" -> 3
      [] ch = "4" -> 4 [] ch = "5" -> 5 [] ch = "6" -> 6 [] ch = "7" -> 7
      [] ch = "8" -> 8 [] ch = "9" -> 9

IsDigits(t) == \A k \in 1..Len(t) : t[k] \in Digits

RECURSIVE DecVal(_)
\* the number a sequence of digits denotes
DecVal(t) ==
    IF t = <<>> THEN 0
    ELSE DecVal(SubSeq(t, 1, Len(t) - 1)) * 10 + DigitVal(t[Len(t)])

HasSign(t) == Len(t) > 0 /\ t[1] \in {"+", "-"}
Unsigned(t) == IF HasSign(t) THEN Tail(t) ELSE t
Negative(t) == HasSign(t) /\ t[1] = "-"

\* i32::MAX
I32Max == 2147483647

\* <i32 as FromStr>::from_str: an optional sign and at least one digit,
\* nothing else, the value within i32
FromStrI32(t) ==
    LET body == Unsigned(t)
    IN  IF body # <<>> /\ IsDigits(body)
        THEN LET v == IF Negative(t) THEN -DecVal(body) ELSE DecVal(body)
             IN  IF v >= -I32Max - 1 /\ v <= I32Max THEN Ok(v) ELSE Err
        ELSE Err

RECURSIVE Reduce(_, _)
\* m / 10^e with the trailing zeros of the fraction removed
Reduce(m, e) == IF e > 0 /\ m % 10 = 0 THEN Reduce(m \div 10, e - 1) ELSE <<m, e>>

\* <f64 as FromStr>::from_str: an optional sign, digits with at most one
\* point among them and at least one digit, nothing else
FromStrF64(t) ==
    LET body == Unsigned(t)
        dots == {k \in 1..Len(body) : body[k] = "."}
        p    == IF dots = {} THEN Len(body) + 1 ELSE CHOOSE k \in dots : TRUE
        int  == SubSeq(body, 1, p - 1)
        frac == SubSeq(body, p + 1, Len(body))
    IN  IF /\ Cardinality(dots) <= 1
           /\ IsDigits(int)
           /\ IsDigits(frac)
           /\ Len(int) + Len(frac) >= 1
        THEN LET m == DecVal(int \o frac)
             IN  Ok(Reduce(IF Negative(t) THEN -m ELSE m, Len(frac)))
        ELSE Err

\* T::from_str
from_str(T, t) == IF T = "i32" THEN FromStrI32(t) ELSE FromStrF64(t)

(***************************************************************************)
(* parse_pair, lines 16-26, and parse_complex, lines 38-43.  A call yields *)
(* <<"Some", l, r>> (parse_pair) or <<"Some", complex>> (parse_complex),   *)
(* <<"None">>, or <<"Panic">> when it panics instead of returning.         *)
(***************************************************************************)
parse_pair(s, separator, T) ==
    LET f == find(s, separator)
    IN  IF f = None THEN <<"None">>
        ELSE LET index == f[2]
             IN  \* a str slice panics unless its ends are character boundaries
                 IF ~is_char_boundary(s, index) \/ ~is_char_boundary(s, index + 1)
                 THEN <<"Panic">>
                 ELSE LET l == from_str(T, SliceTo(s, index))
                          r == from_str(T, SliceFrom(s, index + 1))
                      IN  IF l[1] = "Ok" /\ r[1] = "Ok"
                          THEN <<"Some", l[2], r[2]>>
                          ELSE <<"None">>

\* variant of parse_complex: the two parts exchanged
parse_complex_swapped(s) ==
    LET p == parse_pair(s, ",", "f64")
    IN  IF p[1] = "Some" THEN <<"Some", Complex(p[3], p[2])>> ELSE p

parse_complex(s) ==
    LET p == parse_pair(s, ",", "f64")
    IN  IF p[1] = "Some" THEN <<"Some", Complex(p[2], p[3])>> ELSE p

RECURSIVE StringsOfLen(_)
StringsOfLen(n) ==
    IF n = 0 THEN {<<>>}
    ELSE {Append(t, ch) : t \in StringsOfLen(n - 1), ch \in Alphabet}

\* the input strings: all strings over Alphabet of at most MaxLen characters
Strings == UNION {StringsOfLen(n) : n \in 0..MaxLen}

InitParse ==
    /\ ps \in Strings
    /\ psep \in Separators
    /\ pT \in {"i32", "f64"}
    /\ ppc = "ready"
    /\ pfn = "none"
    /\ pres = <<"Pending">>
    /\ EscapeIdle

\* a call parse_pair::<pT>(ps, psep)
ParsePair ==
    /\ ppc = "ready"
    /\ pres' = parse_pair(ps, psep, pT)
    /\ pfn' = "parse_pair"
    /\ ppc' = "done"
    /\ UNCHANGED <<ps, psep, pT>>
    /\ UNCHANGED evars

\* a call parse_complex(ps)
ParseComplex ==
    /\ ppc = "ready"
    /\ pres' = parse_complex(ps)
    /\ pfn' = "parse_complex"
    /\ ppc' = "done"
    /\ UNCHANGED <<ps, psep, pT>>
    /\ UNCHANGED evars

NextParse ==
    \/ ParsePair
    \/ ParseComplex

ParseSpec == InitParse /\ [][NextParse]_vars

(***************************************************************************)
(* Properties of escape_time.                                              *)
(***************************************************************************)
RECURSIVE Orbit(_, _)
\* the orbit of 0 under z -> z*z + c0: z_0 = 0, z_(k+1) = z_k * z_k + c0
Orbit(c0, k) ==
    IF k = 0 THEN Zero
    ELSE LET w == Orbit(c0, k - 1) IN CAdd(CMul(w, w), c0)

\* re(z_k)^2 + im(z_k)^2 > 4
OrbitEscapes(c0, k) == FGt(norm_sqr(Orbit(c0, k)), Fin(4))

\* the indices below lim at which the orbit of c0 is outside the radius
EscapeIndices(c0, lim) == {k \in 0..(lim - 1) : OrbitEscapes(c0, k)}

\* C1: a finished call returned Some(n) exactly when n is the smallest index
\* in 0..limit-1 whose orbit point has re^2 + im^2 > 4, and None exactly when
\* no index in 0..limit-1 has
C1_EscapeTimeIsFirstEscape ==
    pc = "done" =>
        LET E == EscapeIndices(c, limit)
        IN  /\ \A n \in 0..(limit + 1) :
                 result = Some(n) <=> (n \in E /\ \A k \in E : n <= k)
            /\ result = None <=> E = {}
            /\ result[1] \in {"Some", "None"}

C1_Witness ==
    /\ pc = "done"
    /\ result[1] = "Some"
    /\ result[2] >= 3
    /\ limit > result[2] + 1

\* |c0| > 2 for the modulus hypot(re, im): infinite when a part is infinite,
\* NaN when a part is NaN and none is infinite
ModulusGt2(c0) ==
    \/ c0.re[1] = "inf"
    \/ c0.im[1] = "inf"
    \/ /\ c0.re[1] = "fin"
       /\ c0.im[1] = "fin"
       /\ c0.re[2] * c0.re[2] + c0.im[2] * c0.im[2] > 4

\* C2 as stated: a call with |c| > 2 and limit > 0 returned Some(0)
C2_OutsideReturnsSome0 ==
    (pc = "done" /\ limit > 0 /\ ModulusGt2(c)) => result = Some(0)

\* C2 amended: a call with re(c)^2 + im(c)^2 > 4 returned Some(1) when
\* limit > 1 and None when limit = 1
C2_OutsideReturnsSome1 ==
    (pc = "done" /\ limit > 0 /\ FGt(norm_sqr(c), Fin(4))) =>
        result = IF limit > 1 THEN Some(1) ELSE None

C2_Witness ==
    /\ pc = "done"
    /\ FGt(norm_sqr(c), Fin(4))
    /\ c.re[1] = "fin"
    /\ c.im[1] = "fin"
    /\ limit > 1
    /\ result = Some(1)
    /\ z = c

\* C6: with c = 0 the local z is 0 throughout, and a call with limit > 0
\* returned None
C6_ZeroNeverEscapes ==
    c = Zero =>
        /\ z = Zero
        /\ (pc = "done" /\ limit > 0) => result = None

C6_Witness ==
    /\ pc = "done"
    /\ c = Zero
    /\ limit > 1
    /\ updates = limit
    /\ result = None

\* C7: a call with limit = 0 returned None, having evaluated the test and
\* updated z no times
C7_LimitZeroReturnsNone ==
    (pc = "done" /\ limit = 0) =>
        /\ result = None
        /\ tests = 0
        /\ updates = 0
        /\ z = Zero

C7_Witness ==
    /\ pc = "done"
    /\ limit = 0
    /\ FGt(norm_sqr(c), Fin(4))
    /\ result = None

\* C8: a returned Some(n) has 0 <= n < limit
C8_CountBelowLimit ==
    (pc = "done" /\ result[1] = "Some") => (0 <= result[2] /\ result[2] < limit)

C8_Witness ==
    /\ pc = "done"
    /\ result[1] = "Some"
    /\ result[2] = limit - 1
    /\ result[2] >= 2

\* C9: a call evaluates the test and updates z at most limit times each, it
\* returns Some(i) from inside the loop or None after all limit updates, and
\* every call that has started returns
C9_Terminates ==
    /\ [](/\ tests <= limit
          /\ updates <= limit
          /\ pc = "done" =>
                \/ result = Some(i) /\ i < limit /\ tests = i + 1 /\ updates = i
                \/ result = None /\ i = limit /\ tests = limit /\ updates = limit)
    /\ (pc = "loop") ~> (pc = "done")

C9_Witness ==
    /\ pc = "done"
    /\ limit >= 3
    /\ updates = limit

\* C10: of two finished calls on the same c, with limits L <= L2: if the call
\* with L returned Some(n), the call with L2 returned the same Some(n); if the
\* call with L2 returned None, the call with L returned None
C10_StableInLimit ==
    (pc = "done" /\ prevLimit >= 0) =>
        /\ (prevLimit <= limit /\ prevResult[1] = "Some") => result = prevResult
        /\ (prevLimit <= limit /\ result = None) => prevResult = None
        /\ (limit <= prevLimit /\ result[1] = "Some") => prevResult = result
        /\ (limit <= prevLimit /\ prevResult = None) => result = None

C10_Witness ==
    /\ pc = "done"
    /\ prevLimit >= 0
    /\ prevLimit < limit
    /\ prevResult[1] = "Some"
    /\ prevResult[2] >= 2
    /\ result = prevResult

(***************************************************************************)
(* Properties of parse_pair and parse_complex.                             *)
(***************************************************************************)
\* the position in s of the first character equal to sep, 0 if there is none
FirstIndex(s, sep) ==
    IF \E k \in 1..Len(s) : s[k] = sep
    THEN CHOOSE k \in 1..Len(s) : s[k] = sep /\ \A j \in 1..(k - 1) : s[j] # sep
    ELSE 0

\* the characters of s before position k, and those after it
Before(s, k) == SubSeq(s, 1, k - 1)
After(s, k) == SubSeq(s, k + 1, Len(s))

\* what parse_pair::<T>(s, sep) is to return: Some((l, r)) when sep occurs in
\* s and the text before its first occurrence parses to l and the text after
\* it to r, otherwise None
ExpectedPair(s, sep, T) ==
    LET k == FirstIndex(s, sep)
    IN  IF k = 0 THEN <<"None">>
        ELSE LET l == from_str(T, Before(s, k))
                 r == from_str(T, After(s, k))
             IN  IF l[1] = "Ok" /\ r[1] = "Ok"
                 THEN <<"Some", l[2], r[2]>>
                 ELSE <<"None">>

\* C3: every call of parse_pair returned a value, Some or None
C3_ParsePairReturns ==
    (ppc = "done" /\ pfn = "parse_pair") => pres[1] \in {"Some", "None"}

\* C4: every call of parse_pair returned Some((l, r)) if the separator occurs
\* and both sides of its first occurrence parse, to l and r, and None otherwise
C4_ParsePairSplitsAtFirst ==
    (ppc = "done" /\ pfn = "parse_pair") => pres = ExpectedPair(ps, psep, pT)

\* C3 and C4 for the separators that are one byte long
ParsePairOneByteSeparator ==
    (ppc = "done" /\ pfn = "parse_pair" /\ len_utf8(psep) = 1) =>
        pres = ExpectedPair(ps, psep, pT)

\* the panics of parse_pair are the calls whose separator occurs in s and is
\* more than one byte long
ParsePairPanics ==
    (ppc = "done" /\ pfn = "parse_pair") =>
        (pres[1] = "Panic" <=> (FirstIndex(ps, psep) # 0 /\ len_utf8(psep) > 1))

\* C5: parse_complex(s) returned Some(Complex{re: a, im: b}) exactly when
\* parse_pair::<f64>(s, ',') is Some((a, b)), and None exactly when it is None
C5_ParseComplexIsParsePair ==
    (ppc = "done" /\ pfn = "parse_complex") =>
        LET p == parse_pair(ps, ",", "f64")
        IN  /\ pres[1] \in {"Some", "None"}
            /\ pres[1] = p[1]
            /\ pres[1] = "Some" => (pres[2].re = p[2] /\ pres[2].im = p[3])

C5_Witness ==
    /\ ppc = "done"
    /\ pfn = "parse_complex"
    /\ pres[1] = "Some"
    /\ pres[2].re # pres[2].im
    /\ pres[2].im[2] > 0

====
